---- MODULE Spec2Model ----
(***************************************************************************)
(* Model of Link_Simulation (src/baseband_processing.py): construction of  *)
(* the transmitter, channel and receiver objects, and the three calls      *)
(* transmit, go_through_channel and receive, which a caller such as the    *)
(* __main__ block makes in any order on the results it holds.  Tensors are *)
(* modelled by their shape and their content; the float product of line 24 *)
(* is computed in IEEE-754 double arithmetic; other                        *)
(* real values are modelled by exact rationals (noise variance) or by      *)
(* their sign (symbol amplitudes, channel gain, LLRs).                     *)
(***************************************************************************)
EXTENDS Integers, Sequences, FiniteSets

(* ------------------------------ bounds --------------------------------- *)
\* interleaver seeds drawn at construction: 0 .. NumSeeds-1
NumSeeds == 2
\* at most this many sign errors are added by the channel noise in one call
MaxFlips == 1
\* the calls are run on bit tensors of at most this many coded bits
MaxTensorBits == 4
\* the caller makes at most this many calls on one object, in any order
MaxCalls == 4

(* ------------------------- configuration inputs ------------------------ *)
MkGrid(nsym, fft, pilots) ==
    [num_ofdm_symbols |-> nsym, fft_size |-> fft,
     pilot_ofdm_symbol_indices |-> pilots,
     num_tx |-> 1, num_streams_per_tx |-> 1]

\* resource grids handed in by the caller (kronecker pilots, single stream)
Grids == { MkGrid(2, 1, {0}), MkGrid(3, 1, {1}), MkGrid(2, 2, {1}) }

\* a grid of 25 data symbols, for construction only
ConstructionGrids == Grids \cup { MkGrid(2, 25, {0}) }

\* a code rate is the decimal literal num/den the caller wrote
Rat(n, d) == [num |-> n, den |-> d]
CodeRates ==
    { Rat(-1, 2), Rat(0, 1), Rat(1, 2), Rat(58, 100), Rat(7, 10), Rat(3, 4),
      Rat(1, 1), Rat(3, 2) }
\* the code rates the calls are run with
PipelineRates == { Rat(1, 2), Rat(3, 4) }
BitsPerSymbol == { -1, 0, 1, 2 }
BatchSizes == { 1, 2 }

\* every parameter object a caller may hand to the constructor
Simulation_Parameter ==
    [resource_grid : ConstructionGrids, num_batches : BatchSizes,
     num_bits_per_symbol : BitsPerSymbol, code_rate : CodeRates]

\* ebno_db arguments of the calls
EbnoValues == { 10, 20 }

VARIABLES
    sim_paras,   \* the Simulation_Parameter object handed to the constructor
    phase,       \* "new", "ready" (constructed), "raised" (constructor raised)
    raised,      \* the exception the constructor ended in, "" if none
    self,        \* the fields of the Link_Simulation object
    tx,          \* caller's (tx_symbols, info_bits) of the last transmit()
    rx,          \* caller's (rx_symbols, channel_freq) of the last go_through_channel()
    out,         \* caller's decoded_bits of the last receive()
    calls        \* the number of calls the caller has made on the object

vars == <<sim_paras, phase, raised, self, tx, rx, out, calls>>

(* --------------------------- ResourceGrid ------------------------------ *)
Positions(g) == (0..(g.num_ofdm_symbols - 1)) \X (0..(g.fft_size - 1))

Role(g, p) == IF p[1] \in g.pilot_ofdm_symbol_indices THEN "pilot" ELSE "data"

Linear(g, p) == p[1] * g.fft_size + p[2]

DataPositions(g) == { p \in Positions(g) : Role(g, p) = "data" }

num_data_symbols(g) == Cardinality(DataPositions(g))

\* rank (1-based) of a data position among the data positions, row-major
DataIndex(g, p) ==
    Cardinality({ q \in DataPositions(g) : Linear(g, q) < Linear(g, p) }) + 1

(* ------------------------------ numbers -------------------------------- *)
\* Python int() of the exact quotient n/d, d > 0: truncation toward zero
PyInt(n, d) == IF n >= 0 THEN n \div d ELSE -((-n) \div d)

\* mathematical floor of the rational n/d, d > 0
Floor(n, d) == n \div d

NumCodeBits(nds, bps) == PyInt(nds * bps, 1)

(* -------------------- Python float arithmetic (line 24) ---------------- *)
\* A float is an IEEE-754 double of 53 significant bits.  Its significand is
\* held as the leading bit and four limbs of LimbBits bits, most significant
\* first: value = (m[1] + m[2]/L + m[3]/L^2 + m[4]/L^3 + m[5]/L^4) * 2^exp,
\* L = 2^LimbBits, m[1] = 1.  Integers are machine integers of 32 bits: a
\* value outside them is an overflow error of the evaluation, never a wrong
\* number.
LimbBits == 13

RECURSIVE Pow2(_)
Pow2(k) == IF k = 0 THEN 1 ELSE 2 * Pow2(k - 1)

Limb == Pow2(LimbBits)

\* for a > 0, b > 0: the k with 2^k <= a/b < 2^(k+1)
Exponent(a, b) ==
    IF a >= b
    THEN CHOOSE k \in 0..12 : b * Pow2(k) <= a /\ a < b * Pow2(k + 1)
    ELSE -(CHOOSE j \in 1..12 : a * Pow2(j) >= b /\ a * Pow2(j - 1) < b)

\* the first n limbs of r/b after the point, 0 <= r < b
RECURSIVE FracLimbs(_, _, _)
FracLimbs(r, b, n) ==
    IF n = 0 THEN << >>
    ELSE <<(r * Limb) \div b>> \o FracLimbs((r * Limb) % b, b, n - 1)

\* what is left of r after those n limbs
RECURSIVE FracRem(_, _, _)
FracRem(r, b, n) == IF n = 0 THEN r ELSE FracRem((r * Limb) % b, b, n - 1)

\* one unit in the last place more, carried upwards from limb i
RECURSIVE AddOne(_, _)
AddOne(m, i) ==
    IF i = 1 THEN [m EXCEPT ![1] = @ + 1]
    ELSE IF m[i] + 1 < Limb THEN [m EXCEPT ![i] = @ + 1]
    ELSE AddOne([m EXCEPT ![i] = 0], i - 1)

\* a carry out of the leading bit moves into the exponent
Increment(f) ==
    LET m == AddOne(f.m, Len(f.m))
    IN  IF m[1] = 2 THEN [m |-> [m EXCEPT ![1] = 1], exp |-> f.exp + 1]
        ELSE [m |-> m, exp |-> f.exp]

\* round to nearest, ties to even: guard is the first dropped bit, sticky
\* tells whether any later dropped bit is set
RoundHalfEven(f, guard, sticky) ==
    IF guard = 1 /\ (sticky \/ f.m[Len(f.m)] % 2 = 1) THEN Increment(f) ELSE f

\* the float nearest to the literal num/den, num > 0, den > 0
ToDouble(num, den) ==
    LET k   == Exponent(num, den)
        a   == IF k >= 0 THEN num ELSE num * Pow2(-k)
        b   == IF k >= 0 THEN den * Pow2(k) ELSE den
        rem == FracRem(a - b, b, 4)
        g   == IF 2 * rem >= b THEN 1 ELSE 0
    IN  RoundHalfEven([m |-> <<1>> \o FracLimbs(a - b, b, 4), exp |-> k],
                      g, 2 * rem - g * b > 0)

\* the number of significant bits of a float
MantissaBits == 4 * LimbBits + 1

\* the limbs of the natural number c, most significant first
RECURSIVE Limbs(_)
Limbs(c) == IF c < Limb THEN <<c>> ELSE Limbs(c \div Limb) \o <<c % Limb>>

\* the limb of weight Limb^i of x, 0 above its length
Digit(x, i) == IF i < Len(x) THEN x[Len(x) - i] ELSE 0

\* the sum of x_i * y_(k-i) over i = 0..j
RECURSIVE Column(_, _, _, _)
Column(x, y, k, j) ==
    IF j < 0 THEN 0 ELSE Digit(x, j) * Digit(y, k - j) + Column(x, y, k, j - 1)

\* the limbs of the exact product x * y, from weight Limb^k upwards
RECURSIVE MulLimbs(_, _, _, _)
MulLimbs(x, y, k, carry) ==
    IF k = Len(x) + Len(y) THEN << >>
    ELSE LET t == Column(x, y, k, k) + carry
         IN  MulLimbs(x, y, k + 1, t \div Limb) \o <<t % Limb>>

\* the number of binary digits of x >= 0
RECURSIVE BitLength(_)
BitLength(x) == IF x = 0 THEN 0 ELSE 1 + BitLength(x \div 2)

\* the number of binary digits of the limbs p
RECURSIVE Bits(_)
Bits(p) ==
    IF p = << >> THEN 0
    ELSE IF p[1] = 0 THEN Bits(Tail(p))
    ELSE BitLength(p[1]) + LimbBits * (Len(p) - 1)

\* p shifted down by n bits, n less than the digits of p: the limbs that are
\* left, guard (the last bit dropped) and sticky (whether a bit dropped
\* before it was set)
ShiftRight(p, n) ==
    LET whole == n \div LimbBits
        bits  == n % LimbBits
        lo    == Pow2(bits)
        hi    == Limb \div lo
        kept  == SubSeq(p, 1, Len(p) - whole)
        gone  == SubSeq(p, Len(p) - whole + 1, Len(p))
        part  == kept[Len(kept)] % lo
    IN  [limbs  |-> [i \in 1..Len(kept) |->
                        IF i = 1 THEN kept[1] \div lo
                        ELSE (kept[i - 1] % lo) * hi + kept[i] \div lo],
         guard  |-> IF bits > 0 THEN part \div (lo \div 2)
                    ELSE IF whole > 0 THEN gone[1] \div (Limb \div 2)
                    ELSE 0,
         sticky |-> IF bits > 0
                    THEN part % (lo \div 2) # 0 \/ \E i \in DOMAIN gone : gone[i] # 0
                    ELSE IF whole > 0
                    THEN gone[1] % (Limb \div 2) # 0 \/ \E i \in 2..Len(gone) : gone[i] # 0
                    ELSE FALSE]

\* float * int, c > 0: the exact product rounded to a float
DoubleTimesInt(f, c) ==
    LET p     == MulLimbs(f.m, Limbs(c), 0, 0)
        extra == Bits(p) - MantissaBits
        s     == ShiftRight(p, extra)
    IN  RoundHalfEven([m |-> SubSeq(s.limbs, Len(s.limbs) - 4, Len(s.limbs)),
                       exp |-> f.exp + extra],
                      s.guard, s.sticky)

\* the natural number of the limbs p
RECURSIVE ToNat(_)
ToNat(p) == IF p = << >> THEN 0 ELSE ToNat(SubSeq(p, 1, Len(p) - 1)) * Limb + p[Len(p)]

\* int() of a positive float: its integer part
TruncDouble(f) ==
    IF f.exp < 0 THEN 0
    ELSE IF f.exp < MantissaBits
         THEN ToNat(ShiftRight(f.m, MantissaBits - 1 - f.exp).limbs)
         ELSE ToNat(f.m) * Pow2(f.exp - MantissaBits + 1)

\* int(num_code_bits * code_rate): the float product, truncated toward zero
NumInfoBits(ncb, rate) ==
    IF ncb = 0 \/ rate.num = 0 THEN 0
    ELSE LET mag == TruncDouble(DoubleTimesInt(
                        ToDouble(IF rate.num < 0 THEN -rate.num ELSE rate.num, rate.den),
                        IF ncb < 0 THEN -ncb ELSE ncb))
         IN  IF (ncb < 0) # (rate.num < 0) THEN -mag ELSE mag

(* ----------------------- library objects (sionna) ---------------------- *)
\* LDPC5GEncoder(k, n): the code structure is fixed by k and n
LDPC5GEncoder(k, n) == [k |-> k, n |-> n]

Constellation(bps) == [type |-> "qam", num_bits_per_symbol |-> bps]

\* RandomInterleaver(): keeps the seed drawn at construction (keep_state)
RandomInterleaver(seed) == [seed |-> seed]

\* Deinterleaver(interleaver): holds the interleaver it inverts
Deinterleaver_fresh(interleaver) ==
    [interleaver |-> RandomInterleaver(interleaver.seed + 1)]

Deinterleaver(interleaver) == [interleaver |-> interleaver]

StreamManagement(rx_tx_association, num_streams_per_tx) ==
    [num_tx |-> Len(rx_tx_association[1]), num_streams_per_tx |-> num_streams_per_tx]

(* ---------------------------- construction ----------------------------- *)
\* __init__, lines 17-35: plain parameters
set_up_parameters(sp) ==
    LET nds == num_data_symbols(sp.resource_grid)
        ncb == NumCodeBits(nds, sp.num_bits_per_symbol)
    IN  [resource_grid |-> sp.resource_grid,
         num_data_symbols |-> nds,
         num_bits_per_symbol |-> sp.num_bits_per_symbol,
         batch_size |-> sp.num_batches,
         code_rate |-> sp.code_rate,
         num_code_bits |-> ncb,
         num_info_bits |-> NumInfoBits(ncb, sp.code_rate),
         num_UE |-> 1, num_BS |-> 1, num_UE_ANT |-> 1, num_BS_ANT |-> 1,
         stream_management |-> StreamManagement(<< <<1>> >>, 1)]

initialize_transmitter(s, seed) ==
    [ldpc_encoder |-> LDPC5GEncoder(s.num_info_bits, s.num_code_bits),
     constellation |-> Constellation(s.num_bits_per_symbol),
     mapper |-> [constellation |-> Constellation(s.num_bits_per_symbol)],
     resource_grid_mapper |-> [resource_grid |-> s.resource_grid],
     interleaver |-> RandomInterleaver(seed)]

initialize_channel(s) ==
    [channel |-> [resource_grid |-> s.resource_grid, add_awgn |-> TRUE,
                  normalize_channel |-> TRUE, return_channel |-> TRUE]]

\* a grid that differs from g in the role of its first two OFDM symbols
OtherGrid(g) ==
    [g EXCEPT !.pilot_ofdm_symbol_indices =
        IF 0 \in g.pilot_ofdm_symbol_indices THEN (@ \ {0}) \cup {1} ELSE (@ \ {1}) \cup {0}]

initialize_receiver_other_grid(s, t) ==
    [ls_estimator |-> [resource_grid |-> OtherGrid(s.resource_grid), interpolation_type |-> "nn"],
     lmmse_equalizer |-> [resource_grid |-> s.resource_grid,
                          stream_management |-> s.stream_management],
     demapper |-> [demapping_method |-> "app",
                   constellation |-> Constellation(s.num_bits_per_symbol)],
     deinterleaver |-> Deinterleaver(t.interleaver),
     ldpc_decoder |-> [encoder |-> t.ldpc_encoder, hard_out |-> TRUE]]

\* s: the plain parameters, t: the transmitter fields already set
initialize_receiver(s, t) ==
    [ls_estimator |-> [resource_grid |-> s.resource_grid, interpolation_type |-> "nn"],
     lmmse_equalizer |-> [resource_grid |-> s.resource_grid,
                          stream_management |-> s.stream_management],
     demapper |-> [demapping_method |-> "app",
                   constellation |-> Constellation(s.num_bits_per_symbol)],
     deinterleaver |-> Deinterleaver(t.interleaver),
     ldpc_decoder |-> [encoder |-> t.ldpc_encoder, hard_out |-> TRUE]]

\* record union: the fields of a and of b
Merge(a, b) ==
    [f \in (DOMAIN a) \cup (DOMAIN b) |-> IF f \in DOMAIN a THEN a[f] ELSE b[f]]

Link_Simulation(sp, seed) ==
    LET s == set_up_parameters(sp)
        t == initialize_transmitter(s, seed)
    IN  Merge(Merge(s, t), Merge(initialize_channel(s), initialize_receiver(s, t)))

(* ------------------------- noise-variance translation ------------------ *)
\* sionna.utils.ebnodb2no: 1 / (10^(ebno_db/10) * coderate * bits per symbol
\* / energy per symbol), energy per symbol = grid elements / data elements.
\* Exact rational [num, den]; den = 0 stands for the division by zero.
Pow10(e) == IF e = 0 THEN 1 ELSE IF e = 1 THEN 10 ELSE IF e = 2 THEN 100 ELSE 1000

ebnodb2no(ebno_dB, num_bits_per_symbol, coderate, resource_grid) ==
    Rat(Cardinality(Positions(resource_grid)) * coderate.den,
        Pow10(ebno_dB \div 10) * coderate.num * num_bits_per_symbol
            * num_data_symbols(resource_grid))

\* a translator that keeps the value of the call before
snr_to_noise_variance_cached(s, ebno_dB) ==
    IF rx # {} THEN (CHOOSE r \in rx : TRUE).no
    ELSE ebnodb2no(ebno_dB, s.num_bits_per_symbol, s.code_rate, s.resource_grid)

snr_to_noise_variance(s, ebno_dB) ==
    ebnodb2no(ebno_dB, s.num_bits_per_symbol, s.code_rate, s.resource_grid)

(* ------------------------------ tensors -------------------------------- *)
Dim(x) == IF x > 0 THEN x ELSE 0

Tensor(shape, data) == [shape |-> shape, data |-> data]

\* the shape with its last dimension replaced
WithLast(shape, d) == [i \in DOMAIN shape |-> IF i = Len(shape) THEN d ELSE shape[i]]

BitRows(len) == [1..Dim(len) -> {0, 1}]

\* BinarySource()(shape): every bit tensor of that shape
BinarySource(shape) ==
    { Tensor(shape, d) : d \in [1..shape[1] -> BitRows(shape[4])] }

(* ------------------------------ LDPC ----------------------------------- *)
RECURSIVE SumBits(_, _)
SumBits(u, i) == IF i = 0 THEN 0 ELSE u[i] + SumBits(u, i - 1)

\* systematic code: the k information bits, then n-k parity bits, each the
\* parity of the information bits
CodewordOf(enc, u) ==
    [i \in 1..Dim(enc.n) |-> IF i <= Len(u) THEN u[i] ELSE SumBits(u, Len(u)) % 2]

\* encoder output; every coded bit carries its position in the codeword
ldpc_encoder(enc, t) ==
    Tensor(WithLast(t.shape, Dim(enc.n)),
           [b \in DOMAIN t.data |->
               LET c == CodewordOf(enc, t.data[b])
               IN  [i \in DOMAIN c |-> [pos |-> i, bit |-> c[i]]]])

ParityOK(enc, hard) ==
    LET kk == IF Dim(enc.k) <= Len(hard) THEN Dim(enc.k) ELSE Len(hard)
        par == SumBits(hard, kk) % 2
    IN  \A i \in (kk + 1)..Len(hard) : hard[i] = par

InfoPart(enc, hard) ==
    [i \in 1..Dim(enc.k) |-> IF i <= Len(hard) THEN hard[i] ELSE 0]

\* hard decisions of one row: the information bits of the word when its
\* parity checks hold, best-effort bits otherwise
DecodeRow(dec, llr) ==
    LET hard == [i \in DOMAIN llr |-> IF llr[i].llr > 0 THEN 1 ELSE 0]
    IN  IF ParityOK(dec.encoder, hard) THEN { InfoPart(dec.encoder, hard) }
        ELSE BitRows(dec.encoder.k)

\* LDPC5GDecoder(encoder, hard_out=True)(llr): the tensors it may return
ldpc_decoder(dec, t) ==
    { Tensor(WithLast(t.shape, Len(d[1])), d) :
        d \in { e \in [DOMAIN t.data -> UNION { DecodeRow(dec, t.data[b]) : b \in DOMAIN t.data }] :
                  \A b \in DOMAIN t.data : e[b] \in DecodeRow(dec, t.data[b]) } }

(* --------------------------- interleaving ------------------------------ *)
\* the permutation a seed stands for, on sequences of length n
Perm(seed, n) == [i \in 1..n |-> ((i - 1 + seed) % n) + 1]

InterleaveRow(il, x) == [i \in DOMAIN x |-> x[Perm(il.seed, Len(x))[i]]]

DeinterleaveRow(d, y) ==
    [j \in DOMAIN y |-> y[CHOOSE i \in DOMAIN y : Perm(d.interleaver.seed, Len(y))[i] = j]]

interleaver(il, t) == Tensor(t.shape, [b \in DOMAIN t.data |-> InterleaveRow(il, t.data[b])])

deinterleaver(d, t) == Tensor(t.shape, [b \in DOMAIN t.data |-> DeinterleaveRow(d, t.data[b])])

(* ------------------------ mapping onto the grid ------------------------ *)
PilotSymbol == << [pos |-> 0, amp |-> 1] >>

SymbolsPerRow(bps, nbits) == IF bps > 0 THEN nbits \div bps ELSE 0

\* Mapper: groups of num_bits_per_symbol coded bits, bit 1 as +1, bit 0 as -1
mapper(m, t) ==
    LET bps == m.constellation.num_bits_per_symbol
        ns  == SymbolsPerRow(bps, t.shape[4])
    IN  Tensor(WithLast(t.shape, ns),
               [b \in DOMAIN t.data |->
                   [j \in 1..ns |->
                       [i \in 1..bps |->
                           LET c == t.data[b][(j - 1) * bps + i]
                           IN  [pos |-> c.pos, amp |-> IF c.bit = 1 THEN 1 ELSE -1]]]])

\* ResourceGridMapper: data symbols fill the data elements row-major,
\* pilot elements carry the pilot symbol
resource_grid_mapper(rgm, t) ==
    LET g == rgm.resource_grid
    IN  Tensor(<<t.shape[1], t.shape[2], t.shape[3], g.num_ofdm_symbols, g.fft_size>>,
               [b \in DOMAIN t.data |->
                   [p \in Positions(g) |->
                       IF Role(g, p) = "pilot" THEN PilotSymbol
                       ELSE IF DataIndex(g, p) <= Len(t.data[b])
                            THEN t.data[b][DataIndex(g, p)] ELSE << >>]])

(* ------------------------------ channel -------------------------------- *)
\* the (batch, grid element, bit) places of the data elements
NoiseSites(g, B, bps) == (1..B) \X DataPositions(g) \X (1..bps)

ErrorPatterns(g, B, bps) ==
    { F \in SUBSET NoiseSites(g, B, bps) : Cardinality(F) <= MaxFlips }

\* OFDMChannel([x, no]): flat gain h on every element, noise flips F
channel(ch, x, no, h, F) ==
    [rx_symbols |->
        Tensor(x.shape,
               [b \in DOMAIN x.data |->
                   [p \in DOMAIN x.data[b] |->
                       [i \in DOMAIN x.data[b][p] |->
                           [pos |-> x.data[b][p][i].pos,
                            amp |-> x.data[b][p][i].amp * h
                                      * (IF <<b, p, i>> \in F THEN -1 ELSE 1)]]]]),
     h_freq |-> [b \in DOMAIN x.data |-> [p \in Positions(ch.resource_grid) |-> h]]]

(* ------------------------------ receiver ------------------------------- *)
Abs(x) == IF x < 0 THEN -x ELSE x

\* nearest pilot OFDM symbol of the same subcarrier, the earlier one on a tie
NearestPilot(g, p) ==
    LET ts == g.pilot_ofdm_symbol_indices
        t  == CHOOSE u \in ts : \A v \in ts :
                  Abs(u - p[1]) < Abs(v - p[1]) \/ (Abs(u - p[1]) = Abs(v - p[1]) /\ u <= v)
    IN  <<t, p[2]>>

\* LSChannelEstimator([y, no]): received pilot / sent pilot at the pilots,
\* nearest-neighbour copy elsewhere; error variance no / |pilot|^2
ls_estimator(est, y, no) ==
    [h_hat |-> [b \in DOMAIN y.data |->
                  [p \in Positions(est.resource_grid) |->
                      y.data[b][NearestPilot(est.resource_grid, p)][1].amp
                        * PilotSymbol[1].amp]],
     err_var |-> no]

\* LMMSEEqualizer([y, h_hat, err_var, no]), single stream: conj(h) y over
\* |h|^2 + no + err_var, read at the data elements in row-major order
lmmse_equalizer(eq, y, h_hat, err_var, no) ==
    LET g  == eq.resource_grid
        sm == eq.stream_management
        nv == Rat(no.num * err_var.den + err_var.num * no.den, no.den * err_var.den)
    IN  [x_hat |->
            Tensor(<<y.shape[1], sm.num_tx, sm.num_streams_per_tx, num_data_symbols(g)>>,
                   [b \in DOMAIN y.data |->
                       [j \in 1..num_data_symbols(g) |->
                           LET p == CHOOSE q \in DataPositions(g) : DataIndex(g, q) = j
                           IN  [i \in DOMAIN y.data[b][p] |->
                                   [pos |-> y.data[b][p][i].pos,
                                    amp |-> y.data[b][p][i].amp * h_hat[b][p]]]]]),
         no_eff |-> Rat(nv.num, nv.den + nv.num)]

\* Demapper("app", "qam", bps)([x, no_eff]): one LLR per bit, in the order
\* of the symbols; the LLR has the sign of the amplitude
demapper(dm, x, no_eff) ==
    LET bps == dm.constellation.num_bits_per_symbol
        nb  == Dim(x.shape[4] * bps)
    IN  Tensor(WithLast(x.shape, nb),
               [b \in DOMAIN x.data |->
                   [i \in 1..nb |->
                       LET e == x.data[b][((i - 1) \div bps) + 1][((i - 1) % bps) + 1]
                       IN  [pos |-> e.pos, llr |-> e.amp]]])

(* ------------------------------ actions -------------------------------- *)
NoFields == [f \in {} |-> 0]

\* before the constructor is called
InitNew ==
    /\ sim_paras \in Simulation_Parameter
    /\ phase = "new"
    /\ raised = ""
    /\ self = NoFields
    /\ tx = {} /\ rx = {} /\ out = {}
    /\ calls = 0

\* Link_Simulation(sim_paras) returns: lines 16-39, no parameter is checked
Construct ==
    /\ phase = "new"
    /\ \E seed \in 0..(NumSeeds - 1) : self' = Link_Simulation(sim_paras, seed)
    /\ phase' = "ready"
    /\ UNCHANGED <<sim_paras, raised, tx, rx, out, calls>>

\* one of the library constructors called at lines 35-80 raises its own error
ConstructRaises ==
    /\ phase = "new"
    /\ phase' = "raised"
    /\ raised' = "LibraryError"
    /\ UNCHANGED <<sim_paras, self, tx, rx, out, calls>>

\* transmit() that keeps the bits it drew in the object
transmit_keeping_bits ==
    /\ phase = "ready"
    /\ calls < MaxCalls
    /\ calls' = calls + 1
    /\ \E info_bits \in BinarySource(<<self.batch_size, self.num_UE,
                                       self.resource_grid.num_streams_per_tx,
                                       Dim(self.num_info_bits)>>) :
          /\ self' = Merge([info_bits |-> info_bits], self)
          /\ tx' = { [symbols_rg |-> resource_grid_mapper(self.resource_grid_mapper,
                          mapper(self.mapper, interleaver(self.interleaver,
                              ldpc_encoder(self.ldpc_encoder, info_bits)))),
                      info_bits |-> info_bits] }
    /\ UNCHANGED <<sim_paras, phase, raised, rx, out>>

\* tx_symbols, info_bits = transmit(): lines 91-97
transmit ==
    /\ phase = "ready"
    /\ calls < MaxCalls
    /\ calls' = calls + 1
    /\ \E info_bits \in BinarySource(<<self.batch_size, self.num_UE,
                                       self.resource_grid.num_streams_per_tx,
                                       Dim(self.num_info_bits)>>) :
          LET codewords             == ldpc_encoder(self.ldpc_encoder, info_bits)
              codewords_interleaved == interleaver(self.interleaver, codewords)
              symbols               == mapper(self.mapper, codewords_interleaved)
              symbols_rg            == resource_grid_mapper(self.resource_grid_mapper, symbols)
          IN  tx' = { [symbols_rg |-> symbols_rg, info_bits |-> info_bits] }
    /\ UNCHANGED <<sim_paras, phase, raised, self, rx, out>>

\* rx_symbols, h_freq = go_through_channel(tx_symbols, ebno_db): lines 100-103
go_through_channel ==
    /\ phase = "ready"
    /\ calls < MaxCalls
    /\ calls' = calls + 1
    /\ \E t \in tx, ebno_db \in EbnoValues, h \in {1, -1},
          F \in ErrorPatterns(self.resource_grid, self.batch_size, self.num_bits_per_symbol) :
          LET no == snr_to_noise_variance(self, ebno_db)
              r  == channel(self.channel, t.symbols_rg, no, h, F)
          IN  rx' = { [rx_symbols |-> r.rx_symbols, h_freq |-> r.h_freq,
                       ebno_db |-> ebno_db, no |-> no,
                       errors |-> Cardinality(F), info_bits |-> t.info_bits] }
    /\ UNCHANGED <<sim_paras, phase, raised, self, tx, out>>

\* receive() that returns the hard decisions of the LLRs, undecoded
receive_hard_decisions ==
    /\ phase = "ready"
    /\ calls < MaxCalls
    /\ calls' = calls + 1
    /\ \E r \in rx, ebno_db \in EbnoValues :
          LET no  == snr_to_noise_variance(self, ebno_db)
              est == ls_estimator(self.ls_estimator, r.rx_symbols, no)
              eq  == lmmse_equalizer(self.lmmse_equalizer, r.rx_symbols,
                                     est.h_hat, est.err_var, no)
              llr == demapper(self.demapper, eq.x_hat, eq.no_eff)
          IN  out' = { [decoded_bits |->
                           Tensor(llr.shape,
                                  [b \in DOMAIN llr.data |->
                                      [i \in DOMAIN llr.data[b] |->
                                          IF llr.data[b][i].llr > 0 THEN 1 ELSE 0]]),
                        decoder_input |-> llr,
                        ebno_db |-> ebno_db, no |-> no,
                        channel_ebno_db |-> r.ebno_db,
                        errors |-> r.errors, info_bits |-> r.info_bits] }
    /\ UNCHANGED <<sim_paras, phase, raised, self, tx, rx>>

\* decoded_bits = receive(rx_symbols, ebno_db): lines 106-112
receive ==
    /\ phase = "ready"
    /\ calls < MaxCalls
    /\ calls' = calls + 1
    /\ \E r \in rx, ebno_db \in EbnoValues :
          LET no  == snr_to_noise_variance(self, ebno_db)
              est == ls_estimator(self.ls_estimator, r.rx_symbols, no)
              eq  == lmmse_equalizer(self.lmmse_equalizer, r.rx_symbols,
                                     est.h_hat, est.err_var, no)
              llr == demapper(self.demapper, eq.x_hat, eq.no_eff)
          IN  \E decoded_bits \in ldpc_decoder(self.ldpc_decoder, llr) :
                 out' = { [decoded_bits |-> decoded_bits,
                           decoder_input |-> llr,
                           ebno_db |-> ebno_db, no |-> no,
                           channel_ebno_db |-> r.ebno_db,
                           errors |-> r.errors, info_bits |-> r.info_bits] }
    /\ UNCHANGED <<sim_paras, phase, raised, self, tx, rx>>

(* --------------------------- specifications --------------------------- *)
\* construction, over every parameter object
NextConstruct == Construct \/ ConstructRaises

SpecConstruct == InitNew /\ [][NextConstruct]_vars

\* num_info_bits is a positive integer, positive bits per symbol and rate
ValidConfig(sp) ==
    /\ num_data_symbols(sp.resource_grid) > 0
    /\ sp.num_bits_per_symbol > 0
    /\ sp.code_rate.num > 0
    /\ Floor(num_data_symbols(sp.resource_grid) * sp.num_bits_per_symbol * sp.code_rate.num,
             sp.code_rate.den) > 0

\* the parameter objects the calls are run on: valid, with parity bits
PipelineParameters ==
    { sp \in Simulation_Parameter :
        /\ ValidConfig(sp)
        /\ sp.code_rate \in PipelineRates
        /\ sp.resource_grid \in Grids
        /\ sp.num_batches * num_data_symbols(sp.resource_grid) * sp.num_bits_per_symbol
              <= MaxTensorBits }

\* the state after construction
Init ==
    /\ sim_paras \in PipelineParameters
    /\ phase = "ready"
    /\ raised = ""
    /\ \E seed \in 0..(NumSeeds - 1) : self = Link_Simulation(sim_paras, seed)
    /\ tx = {} /\ rx = {} /\ out = {}
    /\ calls = 0

Next ==
    \/ transmit
    \/ go_through_channel
    \/ receive

Spec == Init /\ [][Next]_vars

(* ------------------------------ claims --------------------------------- *)
CodedOrder(t) == \A b \in DOMAIN t.data : \A i \in DOMAIN t.data[b] : t.data[b][i].pos = i

\* C1: the LLRs that receive() hands to the LDPC decoder have passed through
\* the deinterleaver after the demapper, so they are in coded-bit order
\* (position i of the decoder input is coded bit i).
C1_DecoderInputInCodedOrder ==
    \A o \in out : CodedOrder(o.decoder_input)

\* C2: round trip: when the channel introduced no symbol error, the bits
\* returned by receive() equal the info bits returned by transmit().
C2_RoundTrip ==
    \A o \in out : o.errors = 0 => o.decoded_bits = o.info_bits

\* the interleaver pair is tried on every sequence of at most this length
MaxSeqLen == 3

TestSequences == UNION { [1..n -> {0, 1}] : n \in 0..MaxSeqLen }

\* C3: in every state after construction, for every sequence s, the
\* receiver's deinterleaver undoes the transmitter's interleaver:
\* deinterleave(interleave(s)) = s.
C3_DeinterleaverInvertsInterleaver ==
    phase = "ready" =>
        \A s \in TestSequences :
            DeinterleaveRow(self.deinterleaver, InterleaveRow(self.interleaver, s)) = s

\* a transmission is under way through an interleaver that moves bits
C3_Witness ==
    /\ tx # {}
    /\ \E i \in 1..self.num_code_bits :
          Perm(self.interleaver.seed, self.num_code_bits)[i] # i
    /\ \E s \in TestSequences : InterleaveRow(self.interleaver, s) # s

ConfiguredNo(ebno_dB) ==
    ebnodb2no(ebno_dB, sim_paras.num_bits_per_symbol, sim_paras.code_rate,
              sim_paras.resource_grid)

\* C4: the noise variance used inside every go_through_channel and receive
\* call is the one derived from that call's own ebno_db and the fixed
\* configuration, never the value of an earlier call with another ebno_db.
C4_NoiseVarianceOfOwnEbno ==
    /\ \A r \in rx : r.no = ConfiguredNo(r.ebno_db)
    /\ \A o \in out :
          /\ o.no = ConfiguredNo(o.ebno_db)
          /\ (o.ebno_db # o.channel_ebno_db => o.no # ConfiguredNo(o.channel_ebno_db))

\* receive() ran with another ebno_db than the go_through_channel() before it
C4_Witness == \E o \in out : o.ebno_db # o.channel_ebno_db

\* C5: constructing with parameters for which num_info_bits is not a
\* positive integer (or with non-positive bits per symbol or rate) ends in a
\* ConfigurationError: the constructor never ends otherwise.
C5_InvalidConfigRaisesConfigurationError ==
    ~ValidConfig(sim_paras) =>
        (phase = "new" \/ (phase = "raised" /\ raised = "ConfigurationError"))

\* C6: after construction of a valid configuration, num_code_bits =
\* num_data_symbols * num_bits_per_symbol, num_info_bits = floor(num_code_bits
\* * code_rate), 0 < num_info_bits <= num_code_bits when 0 < code_rate <= 1,
\* and the LDPC encoder has k = num_info_bits and n = num_code_bits.
C6_BitCounts ==
    (phase = "ready" /\ ValidConfig(sim_paras)) =>
        LET nds  == num_data_symbols(sim_paras.resource_grid)
            rate == sim_paras.code_rate
        IN  /\ self.num_code_bits = nds * sim_paras.num_bits_per_symbol
            /\ self.num_info_bits = Floor(self.num_code_bits * rate.num, rate.den)
            /\ (rate.num > 0 /\ rate.num <= rate.den) =>
                   (0 < self.num_info_bits /\ self.num_info_bits <= self.num_code_bits)
            /\ self.ldpc_encoder.k = self.num_info_bits
            /\ self.ldpc_encoder.n = self.num_code_bits

\* C7: the bit tensor returned by receive() has exactly the shape of the
\* info-bit tensor returned by transmit(): [batch_size, number of
\* transmitters, streams per transmitter, num_info_bits]; its rows hold the
\* num_info_bits information bits, not the num_code_bits codeword.
C7_DecodedShape ==
    \A o \in out :
        /\ o.decoded_bits.shape = o.info_bits.shape
        /\ o.decoded_bits.shape =
              <<sim_paras.num_batches, sim_paras.resource_grid.num_tx,
                sim_paras.resource_grid.num_streams_per_tx, self.num_info_bits>>
        /\ \A b \in DOMAIN o.decoded_bits.data :
              Len(o.decoded_bits.data[b]) = self.num_info_bits
        /\ Len(o.decoded_bits.data) = sim_paras.num_batches

\* receive() returned a batch of two rows for a code with parity bits
C7_Witness ==
    \E o \in out :
        /\ sim_paras.num_batches = 2
        /\ self.num_info_bits < self.num_code_bits
        /\ o.decoder_input.shape[4] = self.num_code_bits

\* C9: no transmit, go_through_channel or receive call changes the object:
\* the configuration, the constellation, the code structure and the
\* interleaver are the same after the call as before, and nothing else is
\* stored in the object.
C9_CallsLeaveObjectUnchanged ==
    [][phase = "ready" => (self' = self /\ sim_paras' = sim_paras)]_vars

\* all three calls have run, and receive() ran after channel noise
C9_Witness == \E o \in out : o.errors > 0 /\ tx # {} /\ rx # {}

\* C10: in every state after construction the resource-grid mapper, the
\* channel, the noise-variance translator, the channel estimator and the
\* equalizer use the configured resource grid, so every grid element has the
\* same role at transmitter and receiver.
C10_OneResourceGrid ==
    phase = "ready" =>
        LET g == sim_paras.resource_grid
        IN  /\ self.resource_grid = g
            /\ self.resource_grid_mapper.resource_grid = g
            /\ self.channel.resource_grid = g
            /\ self.ls_estimator.resource_grid = g
            /\ self.lmmse_equalizer.resource_grid = g
            /\ \A p \in Positions(g) :
                  /\ Role(self.resource_grid_mapper.resource_grid, p)
                        = Role(self.ls_estimator.resource_grid, p)
                  /\ Role(self.resource_grid_mapper.resource_grid, p)
                        = Role(self.lmmse_equalizer.resource_grid, p)

\* transmit(), go_through_channel() and receive() ran on a grid with data
\* elements on both sides of its pilot symbol
C10_Witness ==
    /\ out # {}
    /\ sim_paras.resource_grid.pilot_ofdm_symbol_indices = {1}
    /\ sim_paras.resource_grid.num_ofdm_symbols = 3

====
